---- MODULE Spec2Model ----
(***************************************************************************)
(* Model of src/plugin.py (message_filter_plugin): the rule engine         *)
(* _apply_filter_rules_to_text, the arbitrator _check_reply_with_llm, the  *)
(* two event handlers and the configuration load.                          *)
(*                                                                         *)
(* Encoding of the Python values:                                          *)
(*   - a str is a sequence of one-character strings; " " is whitespace;    *)
(*   - a rule dict is a record; a key the dict lacks is a field the record *)
(*     lacks (Get models dict.get);                                        *)
(*   - actions: "Block" = "拦截整条消息", "Replace" = "替换命中文字",      *)
(*     "LLMArbitrate" = "使用LLM判断是否拦截"; enabled "on" = "启用";      *)
(*   - a probability and a random draw are hundredths: 100 is 1.0, the     *)
(*     draw ranges over [0, 100);                                          *)
(*   - the send token "发送" is <<"fa", "song">>;                          *)
(*   - regular expressions: an optional leading "^" followed by literal    *)
(*     characters; a pattern containing "(" does not compile (re.error).   *)
(***************************************************************************)
EXTENDS Integers, Sequences, FiniteSets, TLC

VARIABLES
    config,              \* self.config of MessageFilterPlugin
    pre_rules,           \* PreSendMessageFilterEventHandler.rules
    llm_rules,           \* LLMResponseFilterEventHandler.rules
    llm_check_settings,  \* LLMResponseFilterEventHandler.llm_check_settings
    components,          \* list returned by get_plugin_components (NoStr before activation)
    handler,             \* which execute() is running: "none", "llm", "pre"
    pc,                  \* position of the running invocation
    message,             \* the message object handed to execute()
    rules,               \* local `rules` of the invocation
    settings,            \* llm_check_settings argument of the engine (None when not supplied)
    text,                \* `text` argument of the engine
    idx,                 \* index of the next rule of the for loop
    current_text,        \* engine local
    modified,            \* engine local
    llm_check_needed,    \* engine local
    hit_pattern,         \* engine local
    args,                \* arguments of the running call of _check_reply_with_llm
    response,            \* `response` of _check_reply_with_llm (NoStr before the generation call returns)
    arb,                 \* return value of _check_reply_with_llm (None before it returns)
    result,              \* return value of _apply_filter_rules_to_text (None before it returns)
    verdict,             \* return value of execute() (None before it returns, Raised on an exception)
    log,                 \* history: one entry per rule evaluated by the for loop
    arb_calls,           \* history: number of calls of _check_reply_with_llm
    origin,              \* history: the message as it was handed to execute()
    failure,             \* history: the dependency of the arbitrator that failed ("none" so far)
    snapshot             \* history: the class-level rules and settings when execute() was entered

vars == <<config, pre_rules, llm_rules, llm_check_settings, components, handler, pc, message,
          rules, settings, text, idx, current_text, modified, llm_check_needed,
          hit_pattern, args, response, arb, result, verdict, log, arb_calls, origin,
          failure, snapshot>>

----------------------------------------------------------------------------
(* Bounds of the model *)

MaxRules == 2
MaxLen == 2
MaxSegs == 3

(* Python's None where an object is expected, None where a str or a list is
   expected (no str or list of the model holds the element "None"), and the
   marker of an exception leaving execute() *)
None == [none |-> TRUE]
NoStr == <<"None">>
Raised == [raised |-> TRUE]

SeqsUpTo(S, n) == UNION {[1..k -> S] : k \in 0..n}

----------------------------------------------------------------------------
(* str helpers *)

IsSpace(c) == c = " "

RECURSIVE LStrip(_)
LStrip(s) == IF s # <<>> /\ IsSpace(Head(s)) THEN LStrip(Tail(s)) ELSE s

RECURSIVE RStrip(_)
RStrip(s) ==
    IF s # <<>> /\ IsSpace(s[Len(s)]) THEN RStrip(SubSeq(s, 1, Len(s) - 1)) ELSE s

Strip(s) == RStrip(LStrip(s))

(* dict.get(key, default) *)
Get(d, key, default) == IF key \in DOMAIN d THEN d[key] ELSE default

----------------------------------------------------------------------------
(* re helpers *)

(* re.compile succeeds *)
Compiles(p) == \A i \in 1..Len(p) : p[i] # "("

Anchored(p) == p # <<>> /\ Head(p) = "^"

Body(p) == IF Anchored(p) THEN Tail(p) ELSE p

(* the literal body b occurs in t at position i *)
MatchAt(b, t, i) ==
    /\ i + Len(b) - 1 <= Len(t)
    /\ \A k \in 1..Len(b) : t[i + k - 1] = b[k]

(* re.search(p, t) finds a match (p compiles) *)
ReSearch(p, t) ==
    IF Anchored(p)
    THEN MatchAt(Body(p), t, 1)
    ELSE \E i \in 1..(Len(t) + 1) : MatchAt(p, t, i)

RECURSIVE SubFrom(_, _, _, _)
SubFrom(b, repl, t, i) ==
    IF i > Len(t) THEN <<>>
    ELSE IF MatchAt(b, t, i) THEN repl \o SubFrom(b, repl, t, i + Len(b))
    ELSE <<t[i]>> \o SubFrom(b, repl, t, i + 1)

(* re.sub(p, repl, t): every non-overlapping match, leftmost first; p compiles
   and is not empty, repl holds no backslash *)
ReSub(p, repl, t) ==
    IF Anchored(p)
    THEN IF MatchAt(Body(p), t, 1)
         THEN repl \o SubSeq(t, Len(Body(p)) + 1, Len(t))
         ELSE t
    ELSE SubFrom(p, repl, t, 1)

----------------------------------------------------------------------------
(* Inputs: rules, settings, messages, and the answers of the outside world *)

PatA == <<"a">>
PatStart == <<"^">>
PatEmpty == <<>>
PatBad == <<"(">>

(* values random.random() can return: 0.0 and 0.99 *)
Draws == {0, 99}

MkRule(en, p, action, replacement, pr) ==
    [enabled |-> en, pattern |-> p, action |-> action, replacement |-> replacement,
     probability |-> pr]

(* rule records of the after-LLM rule list: every action, probability gates
   (0.0, 0.5, 1.0 and 1.5, which the configuration does not rule out), two
   patterns for the non-terminal actions, a replacement that changes nothing,
   rules the engine must skip, and a dict that lacks keys *)
LLMRuleUniverse ==
    {[enabled |-> "on", pattern |-> PatA],
     MkRule("on", PatA, "Block", <<>>, 0),
     MkRule("on", PatA, "Replace", <<>>, 100),
     MkRule("on", PatA, "Replace", <<>>, 50),
     MkRule("on", PatStart, "Replace", <<"a">>, 100),
     MkRule("on", PatStart, "Replace", <<>>, 100),
     MkRule("on", PatA, "LLMArbitrate", <<>>, 100),
     MkRule("on", PatStart, "LLMArbitrate", <<>>, 150),
     MkRule("on", PatBad, "Block", <<>>, 100),
     MkRule("on", PatEmpty, "Replace", <<"a">>, 100),
     MkRule("off", PatA, "Block", <<>>, 100)}

(* rule records of the pre-send rule list *)
PreRuleUniverse ==
    {MkRule("on", PatA, "Block", <<>>, 100),
     MkRule("on", PatA, "Replace", <<>>, 100),
     MkRule("on", PatA, "Replace", <<>>, 50),
     MkRule("on", PatStart, "Replace", <<"a">>, 100),
     MkRule("on", PatA, "LLMArbitrate", <<>>, 100)}

TextChars == {"a", " "}
Texts == SeqsUpTo(TextChars, MaxLen)

StreamIds == {<<>>, <<"s">>}

(* prompt templates: empty, and one with the two fields the code fills in *)
PromptOk == <<"{messages}", "{reply_text}">>
Prompts == {<<>>, PromptOk}

DefaultModel == <<"utils">>
DefaultContextCount == 10

SendToken == <<"fa", "song">>
Responses == {SendToken, <<" ">> \o SendToken \o <<" ">>, <<"bu">> \o SendToken, <<>>}

(* message handed to the after-LLM handler *)
LLMMessages ==
    {None} \cup [stream_id : StreamIds, llm_response_content : Texts]

SegTypes == {"text", "image", "reply"}
SegTextData == {<<"a">>, <<" ">>}
OpaqueData == <<"#">>

(* the Seg objects a message can hold at one position *)
SegChoices ==
    {[type |-> "text", data |-> d] : d \in SegTextData}
    \cup {[type |-> ty, data |-> OpaqueData] : ty \in SegTypes \ {"text"}}

(* a Seg object: `id` is the identity of the object *)
MkSegs(choice) ==
    [i \in DOMAIN choice |-> [id |-> i, type |-> choice[i].type, data |-> choice[i].data]]

PlainTexts == {<<>>, <<"p">>}

(* message handed to the pre-send handler *)
PreMessages ==
    {None} \cup
    {[stream_id |-> <<"s">>, plain_text |-> pt, message_segments |-> MkSegs(c)] :
        pt \in PlainTexts, c \in SeqsUpTo(SegChoices, MaxSegs)}

----------------------------------------------------------------------------
(* Class-level defaults (plugin.py lines 175-180, 223) *)

DefaultSettings ==
    [model |-> DefaultModel, context_count |-> DefaultContextCount, prompt |-> <<>>]

IdleLocals ==
    /\ handler = "none"
    /\ pc = "idle"
    /\ message = None
    /\ rules = <<>>
    /\ settings = None
    /\ text = <<>>
    /\ idx = 1
    /\ current_text = <<>>
    /\ modified = FALSE
    /\ llm_check_needed = FALSE
    /\ hit_pattern = NoStr
    /\ args = None
    /\ response = NoStr
    /\ arb = None
    /\ result = None
    /\ verdict = None
    /\ log = <<>>
    /\ arb_calls = 0
    /\ origin = None
    /\ failure = "none"
    /\ snapshot = None

ClassDefaults ==
    /\ pre_rules = <<>>
    /\ llm_rules = <<>>
    /\ llm_check_settings = DefaultSettings
    /\ components = NoStr

Init ==
    /\ config \in [enable : {TRUE},
                   pre_send_rules : {<<>>},
                   after_llm_rules : SeqsUpTo(LLMRuleUniverse, MaxRules),
                   llm_check : [prompt : Prompts, model : {DefaultModel},
                                context_count : {DefaultContextCount}]]
    /\ ClassDefaults
    /\ IdleLocals

InitPre ==
    /\ config \in [enable : {TRUE},
                   pre_send_rules : SeqsUpTo(PreRuleUniverse, MaxRules),
                   after_llm_rules : {<<>>},
                   llm_check : [prompt : {PromptOk}, model : {DefaultModel},
                                context_count : {DefaultContextCount}]]
    /\ ClassDefaults
    /\ IdleLocals

----------------------------------------------------------------------------
(* MessageFilterPlugin.get_plugin_components *)

(* a plausible slip: the enabled flag is not looked at *)
IsEnabled_Always(r) == TRUE

(* lines 433-434: `r.get("enabled") == "启用"` *)
IsEnabled(r) == Get(r, "enabled", "None") = "on"

EnabledRules(rs) == SelectSeq(rs, IsEnabled)

(* a plausible slip of the host: the load runs on another thread, at any
   position of the invocation *)
SchedulingPoints_Preemptive ==
    {"idle", "sweep", "check_reply", "fetch_history", "generate", "reply_checked",
     "engine_done", "done"}

(* positions of the invocation at which the event loop runs other code: before
   the handler is entered, while it is suspended in the only await that
   suspends (line 153), and after it returned; get_plugin_components is a
   plain function *)
SchedulingPoints == {"idle", "generate", "done"}

GetPluginComponents ==
    /\ pc \in SchedulingPoints
    /\ pre_rules' = EnabledRules(config.pre_send_rules)
    /\ llm_rules' = EnabledRules(config.after_llm_rules)
    /\ llm_check_settings' =
           [llm_check_settings EXCEPT !.prompt = config.llm_check.prompt,
                                      !.model = config.llm_check.model,
                                      !.context_count = config.llm_check.context_count]
    /\ components' =
           IF config.enable
           THEN (IF pre_rules' # <<>> THEN <<"pre">> ELSE <<>>)
                \o (IF llm_rules' # <<>> THEN <<"llm">> ELSE <<>>)
           ELSE <<>>
    /\ UNCHANGED <<response, snapshot, config, handler, pc, message, rules, settings, text, idx,
                   current_text, modified, llm_check_needed, hit_pattern, args, arb,
                   result, verdict, log, arb_calls, origin, failure>>

(* configurations of a reload: the rule list, the prompt and the model group
   change *)
ReloadRuleLists ==
    {<<MkRule("on", PatA, "LLMArbitrate", <<>>, 100)>>,
     <<MkRule("on", PatStart, "LLMArbitrate", <<>>, 100)>>,
     <<MkRule("on", PatStart, "Replace", <<"a">>, 100),
       MkRule("on", PatA, "LLMArbitrate", <<>>, 100)>>}

ModelNames == {DefaultModel, <<"replyer">>}

ReloadConfigs ==
    [enable : {TRUE},
     pre_send_rules : {<<>>},
     after_llm_rules : ReloadRuleLists,
     llm_check : [prompt : Prompts, model : ModelNames,
                  context_count : {DefaultContextCount}]]

InitReload ==
    /\ config \in ReloadConfigs
    /\ ClassDefaults
    /\ IdleLocals

(* the host hands the plugin another configuration (self.config) *)
ConfigUpdate ==
    /\ pc \in SchedulingPoints
    /\ \E c \in ReloadConfigs :
        /\ c # config
        /\ config' = c
    /\ UNCHANGED <<pre_rules, llm_rules, llm_check_settings, components, handler, pc,
                   message, rules, settings, text, idx, current_text, modified,
                   llm_check_needed, hit_pattern, args, response, arb, result, verdict,
                   log, arb_calls, origin, failure, snapshot>>

----------------------------------------------------------------------------
(* _apply_filter_rules_to_text: one iteration of the for loop.  The engine
   locals are gathered in a record st = [current_text, modified,
   llm_check_needed, hit_pattern]; an iteration yields [kind, st, returned,
   value]: what the rule did, the locals after it, and whether (and what) the
   function returned from inside the loop. *)

EngineLocals == [current_text |-> current_text, modified |-> modified,
                 llm_check_needed |-> llm_check_needed, hit_pattern |-> hit_pattern]

Outcome(b, m, t, h) == [blocked |-> b, modified |-> m, final_text |-> t, hit_pattern |-> h]

(* `continue`: lines 70, 77, 94, and a search that finds nothing *)
Continue(kind, st) == [kind |-> kind, st |-> st, returned |-> FALSE, value |-> None]

(* line 69: `if not pattern` *)
NoPattern(rule) == Get(rule, "pattern", NoStr) \in {NoStr, <<>>}

(* a plausible slip: the comparison is the other way round *)
Gated_Inverted(probability, draw) == probability < 100 /\ draw < probability

(* line 75: `probability < 1.0 and random.random() > probability` *)
Gated(probability, draw) == probability < 100 /\ draw > probability

(* a plausible slip: the Block branch records the hit and goes on *)
BlockMessage_Continues(pattern, st) ==
    [kind |-> "block", st |-> [st EXCEPT !.hit_pattern = pattern],
     returned |-> FALSE, value |-> None]

(* lines 79-81 *)
BlockMessage(pattern, st) ==
    [kind |-> "block", st |-> st, returned |-> TRUE,
     value |-> Outcome(TRUE, st.modified, st.current_text, pattern)]

(* a plausible slip: the substitution is made on the input text, not on the
   text the earlier rules produced *)
NewText_OnInput(pattern, replacement, cur) == ReSub(pattern, replacement, text)

(* line 83 *)
NewText(pattern, replacement, cur) == ReSub(pattern, replacement, cur)

(* a plausible slip: a Replace rule that triggers sets the modified flag
   whether or not the text changed *)
ReplaceText_AlwaysModified(pattern, replacement, st) ==
    [kind |-> "replace",
     st |-> [st EXCEPT !.current_text = NewText(pattern, replacement, st.current_text),
                       !.modified = TRUE],
     returned |-> FALSE, value |-> None]

(* lines 82-87 *)
ReplaceText(pattern, replacement, st) ==
    LET new_text == NewText(pattern, replacement, st.current_text) IN
    IF new_text # st.current_text
    THEN [kind |-> "replace",
          st |-> [st EXCEPT !.current_text = new_text, !.modified = TRUE],
          returned |-> FALSE, value |-> None]
    ELSE [kind |-> "replace", st |-> st, returned |-> FALSE, value |-> None]

(* a plausible slip: every LLMArbitrate rule that triggers records its pattern *)
RequestLLMCheck_Overwrites(pattern, st) ==
    [kind |-> "llm",
     st |-> [st EXCEPT !.llm_check_needed = TRUE, !.hit_pattern = pattern],
     returned |-> FALSE, value |-> None]

(* lines 88-91 *)
RequestLLMCheck(pattern, st) ==
    [kind |-> "llm",
     st |-> [st EXCEPT !.llm_check_needed = TRUE,
                       !.hit_pattern = IF st.hit_pattern = NoStr THEN pattern
                                       ELSE st.hit_pattern],
     returned |-> FALSE, value |-> None]

(* a plausible slip: the try wraps the whole loop, so re.error ends the sweep *)
OnReError_Aborts(st) ==
    [kind |-> "re_error", st |-> st, returned |-> TRUE,
     value |-> Outcome(FALSE, st.modified, st.current_text, st.hit_pattern)]

(* lines 92-94: re.error is caught and the loop continues *)
OnReError(st) == Continue("re_error", st)

(* lines 64-97 *)
EvalRule(rule, st, draw) ==
    LET pattern == Get(rule, "pattern", NoStr)
        action == Get(rule, "action", "Block")
        replacement == Get(rule, "replacement", <<>>)
        probability == Get(rule, "probability", 100)
    IN  IF NoPattern(rule) THEN Continue("no_pattern", st)
        ELSE IF ~Compiles(pattern) THEN OnReError(st)
        ELSE IF ~ReSearch(pattern, st.current_text) THEN Continue("no_match", st)
        ELSE IF Gated(probability, draw) THEN Continue("gated", st)
        ELSE IF action = "Block" THEN BlockMessage(pattern, st)
        ELSE IF action = "Replace" THEN ReplaceText(pattern, replacement, st)
        ELSE IF action = "LLMArbitrate" THEN RequestLLMCheck(pattern, st)
        ELSE Continue("other", st)

(* random.random() is called exactly when the pattern matched and probability < 1.0 *)
Draws_(rule, cur) ==
    /\ ~NoPattern(rule)
    /\ Compiles(rule.pattern)
    /\ ReSearch(rule.pattern, cur)
    /\ Get(rule, "probability", 100) < 100

NoDraw == 0 - 1

RuleStep ==
    /\ pc = "sweep"
    /\ idx <= Len(rules)
    /\ \E draw \in Draws :
        LET rule == rules[idx]
            drawn == Draws_(rule, current_text)
            out == EvalRule(rule, EngineLocals, draw)
        IN  /\ drawn \/ draw = 0
            /\ log' = Append(log, [idx |-> idx, kind |-> out.kind,
                                   draw |-> IF drawn THEN draw ELSE NoDraw,
                                   before |-> EngineLocals])
            /\ current_text' = out.st.current_text
            /\ modified' = out.st.modified
            /\ llm_check_needed' = out.st.llm_check_needed
            /\ hit_pattern' = out.st.hit_pattern
            /\ IF out.returned
               THEN /\ result' = out.value
                    /\ pc' = "engine_done"
                    /\ idx' = idx
               ELSE /\ result' = result
                    /\ pc' = pc
                    /\ idx' = idx + 1
    /\ UNCHANGED <<response, snapshot, config, pre_rules, llm_rules, llm_check_settings, components, handler, message,
                   rules, settings, text, args, arb, verdict, arb_calls, origin, failure>>

(* the llm_check_settings argument is a reference to the class-level dict *)
SettingsRef == [ref |-> "LLMResponseFilterEventHandler.llm_check_settings"]

Deref(ref) == llm_check_settings

(* a plausible slip: the empty text is not looked at, the arbitrator is asked
   about it *)
AfterSweep_AsksAboutEmptyText ==
    /\ pc = "sweep"
    /\ idx > Len(rules)
    /\ IF ~llm_check_needed \/ settings = None
       THEN /\ result' = Outcome(FALSE, modified, current_text, hit_pattern)
            /\ pc' = "engine_done"
            /\ arb_calls' = arb_calls
            /\ args' = args
       ELSE /\ result' = result
            /\ pc' = "check_reply"
            /\ arb_calls' = arb_calls + 1
            /\ args' = [chat_id |-> message.stream_id,
                        reply_text |-> current_text,
                        prompt |-> Get(llm_check_settings, "prompt", <<>>),
                        model_name |-> Get(llm_check_settings, "model", DefaultModel),
                        context_count |-> Get(llm_check_settings, "context_count",
                                              DefaultContextCount)]
    /\ UNCHANGED <<response, snapshot, config, pre_rules, llm_rules, llm_check_settings,
                   components, handler, message, rules, settings, text, idx, current_text,
                   modified, llm_check_needed, hit_pattern, arb, verdict, log, origin,
                   failure>>

(* lines 99-118: after the loop, up to the call of _check_reply_with_llm *)
AfterSweep ==
    /\ pc = "sweep"
    /\ idx > Len(rules)
    /\ IF ~llm_check_needed
       THEN /\ result' = Outcome(FALSE, modified, current_text, hit_pattern)
            /\ pc' = "engine_done"
            /\ arb_calls' = arb_calls
       ELSE IF settings = None
       THEN /\ result' = Outcome(FALSE, modified, current_text, hit_pattern)
            /\ pc' = "engine_done"
            /\ arb_calls' = arb_calls
       ELSE IF Strip(current_text) = <<>>
       THEN /\ result' = Outcome(FALSE, modified, current_text, hit_pattern)
            /\ pc' = "engine_done"
            /\ arb_calls' = arb_calls
       ELSE /\ result' = result
            /\ pc' = "check_reply"
            /\ arb_calls' = arb_calls + 1
    /\ args' = IF llm_check_needed /\ settings # None /\ Strip(current_text) # <<>>
               THEN [chat_id |-> message.stream_id,
                     reply_text |-> current_text,
                     prompt |-> Get(Deref(settings), "prompt", <<>>),
                     model_name |-> Get(Deref(settings), "model", DefaultModel),
                     context_count |-> Get(Deref(settings), "context_count",
                                           DefaultContextCount)]
               ELSE args
    /\ UNCHANGED <<response, snapshot, config, pre_rules, llm_rules, llm_check_settings, components, handler, message,
                   rules, settings, text, idx, current_text, modified,
                   llm_check_needed, hit_pattern, arb, verdict, log, origin, failure>>

----------------------------------------------------------------------------
(* _check_reply_with_llm *)

Reply(should_send, reason) == [should_send |-> should_send, reason |-> reason]

(* the model groups llm_api.get_available_models() may return *)
ModelRegistries == {{}, {DefaultModel}}

(* lines 135-145 *)
CheckReplyEnter ==
    /\ pc = "check_reply"
    /\ \E available_models \in ModelRegistries :
        IF args.chat_id = <<>>
        THEN arb' = Reply(TRUE, "no_chat_id") /\ pc' = "reply_checked"
             /\ failure' = "stream_id"
        ELSE IF args.prompt = <<>>
        THEN arb' = Reply(TRUE, "empty_prompt") /\ pc' = "reply_checked"
             /\ failure' = "prompt"
        ELSE IF args.model_name \notin available_models
        THEN arb' = Reply(TRUE, "no_model") /\ pc' = "reply_checked"
             /\ failure' = "model"
        ELSE arb' = arb /\ pc' = "fetch_history" /\ failure' = failure
    /\ UNCHANGED <<response, snapshot, config, pre_rules, llm_rules, llm_check_settings, components, handler, message,
                   rules, settings, text, idx, current_text, modified,
                   llm_check_needed, hit_pattern, args, result, verdict, log,
                   arb_calls, origin>>

(* lines 147-151: the history fetch, the rendering of the transcript and
   prompt.format are not guarded; an exception of any of them leaves execute() *)
FetchHistory ==
    /\ pc = "fetch_history"
    /\ \E fetch_ok \in BOOLEAN :
        IF ~fetch_ok
        THEN verdict' = Raised /\ pc' = "done" /\ failure' = "history"
        ELSE verdict' = verdict /\ pc' = "generate" /\ failure' = failure
    /\ UNCHANGED <<response, snapshot, config, pre_rules, llm_rules, llm_check_settings, components, handler, message,
                   rules, settings, text, idx, current_text, modified,
                   llm_check_needed, hit_pattern, args, arb, result, log,
                   arb_calls, origin>>

ErrorText == <<"error">>

(* what llm_api.generate_with_model can do: raise, report a failure with an
   error text, or succeed with a response *)
Generations ==
    {[raises |-> TRUE, success |-> FALSE, response |-> <<>>],
     [raises |-> FALSE, success |-> FALSE, response |-> ErrorText]}
    \cup [raises : {FALSE}, success : {TRUE}, response : Responses]

(* a plausible slip: the response is compared as it came, not trimmed *)
Judge_NoStrip(success, answer) ==
    IF ~success THEN Reply(TRUE, "call_failed")
    ELSE IF answer # SendToken THEN Reply(FALSE, answer)
    ELSE Reply(TRUE, answer)

(* lines 156-166 *)
Judge(success, answer) ==
    IF ~success THEN Reply(TRUE, "call_failed")
    ELSE IF Strip(answer) # SendToken THEN Reply(FALSE, Strip(answer))
    ELSE Reply(TRUE, Strip(answer))

(* lines 153-166 *)
Generate ==
    /\ pc = "generate"
    /\ \E g \in Generations :
        IF g.raises
        THEN verdict' = Raised /\ pc' = "done" /\ arb' = arb
             /\ response' = response
             /\ failure' = "generation"
        ELSE verdict' = verdict /\ pc' = "reply_checked"
             /\ response' = g.response
             /\ arb' = Judge(g.success, g.response)
             /\ failure' = IF g.success THEN failure ELSE "generation"
    /\ UNCHANGED <<snapshot, config, pre_rules, llm_rules, llm_check_settings, components, handler, message,
                   rules, settings, text, idx, current_text, modified,
                   llm_check_needed, hit_pattern, args, result, log, arb_calls, origin>>

(* a plausible slip: the outcome of an arbitration carries no hit rule *)
AfterCheckReply_DropsHit ==
    /\ pc = "reply_checked"
    /\ result' = Outcome(~arb.should_send, modified, current_text, NoStr)
    /\ pc' = "engine_done"
    /\ UNCHANGED <<response, snapshot, config, pre_rules, llm_rules, llm_check_settings,
                   components, handler, message, rules, settings, text, idx, current_text,
                   modified, llm_check_needed, hit_pattern, args, arb, verdict, log,
                   arb_calls, origin, failure>>

(* lines 119-124 *)
AfterCheckReply ==
    /\ pc = "reply_checked"
    /\ result' = Outcome(~arb.should_send, modified, current_text, hit_pattern)
    /\ pc' = "engine_done"
    /\ UNCHANGED <<response, snapshot, config, pre_rules, llm_rules, llm_check_settings, components, handler, message,
                   rules, settings, text, idx, current_text, modified,
                   llm_check_needed, hit_pattern, args, arb, verdict, log,
                   arb_calls, origin, failure>>

----------------------------------------------------------------------------
(* LLMResponseFilterEventHandler.execute *)

Verdict(success, status, msg) ==
    [continue_process |-> TRUE, success |-> success, status |-> status,
     custom |-> None, message |-> msg]

(* lines 185-200; the host dispatches to a handler class once the plugin is
   activated (the class may have been registered by an earlier load) *)
LLMExecute ==
    /\ pc = "idle"
    /\ components # NoStr
    /\ \E msg \in LLMMessages :
        /\ handler' = "llm"
        /\ message' = msg
        /\ origin' = msg
        /\ rules' = llm_rules
        /\ snapshot' = [rules |-> llm_rules, settings |-> llm_check_settings]
        /\ IF llm_rules = <<>>
           THEN /\ verdict' = Verdict(TRUE, "no_rules", msg)
                /\ pc' = "done"
                /\ UNCHANGED <<text, current_text, settings>>
           ELSE IF msg = None \/ msg.llm_response_content = <<>>
           THEN /\ verdict' = Verdict(TRUE, "empty_message", msg)
                /\ pc' = "done"
                /\ UNCHANGED <<text, current_text, settings>>
           ELSE /\ verdict' = verdict
                /\ pc' = "sweep"
                /\ text' = msg.llm_response_content
                /\ current_text' = msg.llm_response_content
                /\ settings' = SettingsRef
    /\ UNCHANGED <<response, config, pre_rules, llm_rules, llm_check_settings, components, idx, modified,
                   llm_check_needed, hit_pattern, args, arb, result, log, arb_calls, failure>>

(* a plausible slip: the text that is empty after the replacements is sent *)
LLMFinish_SendsEmpty ==
    /\ pc = "engine_done"
    /\ handler = "llm"
    /\ pc' = "done"
    /\ IF result.blocked
       THEN verdict' = Verdict(FALSE, "blocked", None) /\ message' = message
       ELSE IF ~result.modified
       THEN verdict' = Verdict(TRUE, "passed", message) /\ message' = message
       ELSE /\ message' = [message EXCEPT !.llm_response_content = Strip(result.final_text)]
            /\ verdict' = Verdict(TRUE, "replaced", message')
    /\ UNCHANGED <<response, snapshot, config, pre_rules, llm_rules, llm_check_settings,
                   components, handler, rules, settings, text, idx, current_text, modified,
                   llm_check_needed, hit_pattern, args, arb, result, log, arb_calls, origin,
                   failure>>

(* lines 201-213 *)
LLMFinish ==
    /\ pc = "engine_done"
    /\ handler = "llm"
    /\ pc' = "done"
    /\ IF result.blocked
       THEN verdict' = Verdict(FALSE, "blocked", None) /\ message' = message
       ELSE IF ~result.modified
       THEN verdict' = Verdict(TRUE, "passed", message) /\ message' = message
       ELSE IF Strip(result.final_text) = <<>>
       THEN verdict' = Verdict(FALSE, "empty_after_replace", None) /\ message' = message
       ELSE /\ message' = [message EXCEPT !.llm_response_content = Strip(result.final_text)]
            /\ verdict' = Verdict(TRUE, "replaced", message')
    /\ UNCHANGED <<response, snapshot, config, pre_rules, llm_rules, llm_check_settings, components, handler, rules,
                   settings, text, idx, current_text, modified, llm_check_needed,
                   hit_pattern, args, arb, result, log, arb_calls, origin, failure>>

----------------------------------------------------------------------------
(* Segment helpers *)

IsText(seg) == seg.type = "text"

NotText(seg) == seg.type # "text"

(* a plausible slip: a list of Reply segments counts as content *)
IsReply_Never(seg) == FALSE

IsReply(seg) == seg.type = "reply"

(* a plausible slip: the filter is inverted *)
RemoveTextSegments_Inverted(segments) == SelectSeq(segments, IsText)

(* lines 23-25 *)
RemoveTextSegments(segments) == SelectSeq(segments, NotText)

(* a plausible slip: later text segments are kept instead of skipped *)
KeepSegment_KeepsLater(segments, i, new_text) ==
    IF NotText(segments[i]) THEN <<segments[i]>>
    ELSE IF \A j \in 1..(i - 1) : NotText(segments[j])
    THEN <<[segments[i] EXCEPT !.data = new_text]>>
    ELSE <<segments[i]>>

(* lines 36-40: the first text segment gets new_text, later ones are skipped *)
KeepSegment(segments, i, new_text) ==
    IF NotText(segments[i]) THEN <<segments[i]>>
    ELSE IF \A j \in 1..(i - 1) : NotText(segments[j])
    THEN <<[segments[i] EXCEPT !.data = new_text]>>
    ELSE <<>>

RECURSIVE ReplaceFrom(_, _, _)
ReplaceFrom(segments, i, new_text) ==
    IF i > Len(segments) THEN <<>>
    ELSE KeepSegment(segments, i, new_text) \o ReplaceFrom(segments, i + 1, new_text)

(* lines 28-41 *)
ReplaceFirstTextSegment(segments, new_text) == ReplaceFrom(segments, 1, new_text)

(* line 271: `segments[0].data = current_text` *)
OverwriteOnlySegment(segments, new_text) ==
    [segments EXCEPT ![1] = [segments[1] EXCEPT !.data = new_text]]

RECURSIVE Concat(_)
Concat(ss) == IF ss = <<>> THEN <<>> ELSE Head(ss) \o Concat(Tail(ss))

(* line 235 *)
JoinText(segments) ==
    Concat([i \in DOMAIN SelectSeq(segments, IsText) |-> SelectSeq(segments, IsText)[i].data])

----------------------------------------------------------------------------
(* PreSendMessageFilterEventHandler.execute *)

(* lines 227-242 *)
PreExecute ==
    /\ pc = "idle"
    /\ components # NoStr
    /\ \E msg \in PreMessages :
        /\ handler' = "pre"
        /\ message' = msg
        /\ origin' = msg
        /\ rules' = pre_rules
        /\ snapshot' = [rules |-> pre_rules, settings |-> None]
        /\ IF pre_rules = <<>>
           THEN /\ verdict' = Verdict(TRUE, "no_rules", None)
                /\ pc' = "done"
                /\ UNCHANGED <<text, current_text>>
           ELSE IF msg = None \/ msg.plain_text = <<>>
           THEN /\ verdict' = Verdict(TRUE, "empty_message", None)
                /\ pc' = "done"
                /\ UNCHANGED <<text, current_text>>
           ELSE /\ verdict' = verdict
                /\ pc' = "sweep"
                /\ text' = JoinText(msg.message_segments)
                /\ current_text' = JoinText(msg.message_segments)
    /\ UNCHANGED <<response, config, pre_rules, llm_rules, llm_check_settings, components, settings, idx,
                   modified, llm_check_needed, hit_pattern, args, arb, result, log,
                   arb_calls, failure>>

(* lines 249-280: [send, segments] the handler decides once the text was modified *)
Reconcile(segments, new_text) ==
    IF Strip(new_text) = <<>>
    THEN IF Len(segments) = 1
         THEN [send |-> FALSE, segments |-> segments]
         ELSE LET rest == RemoveTextSegments(segments) IN
              IF rest = <<>> \/ \A i \in DOMAIN rest : IsReply(rest[i])
              THEN [send |-> FALSE, segments |-> segments]
              ELSE [send |-> TRUE, segments |-> rest]
    ELSE IF Len(segments) = 1
         THEN [send |-> TRUE, segments |-> OverwriteOnlySegment(segments, new_text)]
         ELSE [send |-> TRUE, segments |-> ReplaceFirstTextSegment(segments, new_text)]

(* a plausible slip: the unmodified message is handed back as a rewritten one,
   as the after-LLM handler does *)
PreFinish_ReturnsUnmodified ==
    /\ pc = "engine_done"
    /\ handler = "pre"
    /\ pc' = "done"
    /\ IF result.blocked
       THEN verdict' = Verdict(FALSE, "blocked", None) /\ message' = message
       ELSE IF ~result.modified
       THEN verdict' = Verdict(TRUE, "passed", message) /\ message' = message
       ELSE LET r == Reconcile(message.message_segments, result.final_text) IN
            IF ~r.send
            THEN verdict' = Verdict(FALSE, "empty_cancelled", None) /\ message' = message
            ELSE /\ message' = [message EXCEPT !.message_segments = r.segments]
                 /\ verdict' = Verdict(TRUE, "replaced", message')
    /\ UNCHANGED <<response, snapshot, config, pre_rules, llm_rules, llm_check_settings,
                   components, handler, rules, settings, text, idx, current_text, modified,
                   llm_check_needed, hit_pattern, args, arb, result, log, arb_calls, origin,
                   failure>>

(* lines 243-280 *)
PreFinish ==
    /\ pc = "engine_done"
    /\ handler = "pre"
    /\ pc' = "done"
    /\ IF result.blocked
       THEN verdict' = Verdict(FALSE, "blocked", None) /\ message' = message
       ELSE IF ~result.modified
       THEN verdict' = Verdict(TRUE, "passed", None) /\ message' = message
       ELSE LET r == Reconcile(message.message_segments, result.final_text) IN
            IF ~r.send
            THEN verdict' = Verdict(FALSE, "empty_cancelled", None) /\ message' = message
            ELSE /\ message' = [message EXCEPT !.message_segments = r.segments]
                 /\ verdict' = Verdict(TRUE, "replaced", message')
    /\ UNCHANGED <<response, snapshot, config, pre_rules, llm_rules, llm_check_settings, components, handler, rules,
                   settings, text, idx, current_text, modified, llm_check_needed,
                   hit_pattern, args, arb, result, log, arb_calls, origin, failure>>

----------------------------------------------------------------------------
(* Specifications *)

(* the after-LLM pipeline: configuration load, handler, engine, arbitrator *)
Next ==
    \/ GetPluginComponents
    \/ LLMExecute
    \/ RuleStep
    \/ AfterSweep
    \/ CheckReplyEnter
    \/ FetchHistory
    \/ Generate
    \/ AfterCheckReply
    \/ LLMFinish

Spec == Init /\ [][Next]_vars

(* the pre-send pipeline: configuration load, handler, engine *)
NextPre ==
    \/ GetPluginComponents
    \/ PreExecute
    \/ RuleStep
    \/ AfterSweep
    \/ PreFinish

SpecPre == InitPre /\ [][NextPre]_vars

(* rule records of an after-LLM rule list that asks for arbitration *)
ArbitrationRuleUniverse ==
    {MkRule("on", PatA, "LLMArbitrate", <<>>, 100),
     MkRule("on", PatStart, "LLMArbitrate", <<>>, 100),
     MkRule("on", PatA, "Replace", <<>>, 100),
     MkRule("on", PatStart, "Replace", <<"a">>, 100)}

InitArbitration ==
    /\ config \in [enable : {TRUE},
                   pre_send_rules : {<<>>},
                   after_llm_rules : SeqsUpTo(ArbitrationRuleUniverse, MaxRules),
                   llm_check : [prompt : Prompts, model : {DefaultModel},
                                context_count : {DefaultContextCount}]]
    /\ ClassDefaults
    /\ IdleLocals

(* the after-LLM pipeline with configuration reloads *)
NextReload ==
    \/ ConfigUpdate
    \/ GetPluginComponents
    \/ LLMExecute
    \/ RuleStep
    \/ AfterSweep
    \/ CheckReplyEnter
    \/ FetchHistory
    \/ Generate
    \/ AfterCheckReply
    \/ LLMFinish

SpecReload == InitReload /\ [][NextReload]_vars

(* both pipelines, under a configuration that has pre-send rules or after-LLM
   rules *)
InitAll == InitPre \/ InitArbitration

NextAll ==
    \/ GetPluginComponents
    \/ LLMExecute
    \/ PreExecute
    \/ RuleStep
    \/ AfterSweep
    \/ CheckReplyEnter
    \/ FetchHistory
    \/ Generate
    \/ AfterCheckReply
    \/ LLMFinish
    \/ PreFinish

SpecAll == InitAll /\ [][NextAll]_vars

----------------------------------------------------------------------------
(* Vocabulary of the properties.  log[k] is the k-th iteration of the for
   loop: the rule index, the random draw (NoDraw if none was made) and the
   engine locals before the iteration. *)

Returned == pc \in {"engine_done", "done"} /\ result # None

(* engine locals after the k-th iteration *)
LocalsAfter(k) == IF k < Len(log) THEN log[k + 1].before ELSE EngineLocals

(* the k-th iteration returned from inside the loop *)
ReturnedAt(k) == k = Len(log) /\ idx = k

HasPattern(rule) == "pattern" \in DOMAIN rule /\ rule.pattern # <<>>

Malformed(rule) ==
    HasPattern(rule) /\ \E i \in DOMAIN rule.pattern : rule.pattern[i] = "("

Matches(rule, cur) ==
    HasPattern(rule) /\ ~Malformed(rule) /\ ReSearch(rule.pattern, cur)

ActionOf(rule) == IF "action" \in DOMAIN rule THEN rule.action ELSE "Block"

ProbabilityOf(rule) == IF "probability" \in DOMAIN rule THEN rule.probability ELSE 100

(* the rule matched the text and its draw did not exceed its probability *)
Triggers(rule, cur, draw) ==
    /\ Matches(rule, cur)
    /\ ~(ProbabilityOf(rule) < 100 /\ draw > ProbabilityOf(rule))

TriggeredAt(k) == Triggers(rules[log[k].idx], log[k].before.current_text, log[k].draw)

----------------------------------------------------------------------------
(* C1: the first rule that matches the current text, passes its probability
   gate and has action Block ends the evaluation at once: the engine returns
   blocked = true with that rule's pattern as hit rule (whatever an earlier
   LLMArbitrate rule recorded), the text and the modified flag are those
   reached before that rule, no later rule is evaluated and the arbitrator is
   not called. *)
C1_BlockShortCircuits ==
    \A k \in 1..Len(log) :
        (TriggeredAt(k) /\ ActionOf(rules[k]) = "Block") =>
            /\ Returned
            /\ result = Outcome(TRUE, log[k].before.modified,
                                log[k].before.current_text, rules[k].pattern)
            /\ Len(log) = k
            /\ \A j \in 1..Len(log) : log[j].idx = j
            /\ arb_calls = 0

(* a Block rule fired first in a list of two whose second rule would have
   replaced text *)
C1_Witness ==
    /\ pc = "done"
    /\ Len(rules) = 2
    /\ Len(log) = 1
    /\ TriggeredAt(1)
    /\ ActionOf(rules[1]) = "Block"
    /\ ActionOf(rules[2]) = "Replace"
    /\ Matches(rules[2], current_text)
    /\ ProbabilityOf(rules[2]) = 100
    /\ ReSub(rules[2].pattern, rules[2].replacement, current_text) # current_text
    /\ result.final_text = current_text

----------------------------------------------------------------------------
(* C2: with only Replace rules of probability 1.0, the final text is the
   left-to-right fold of the rules' replace-all substitutions, each applied to
   the text the rules before it produced, and the outcome is not blocked.  A
   rule without a usable pattern (missing, empty, malformed) substitutes
   nothing. *)

Substitute(rule, t) ==
    IF HasPattern(rule) /\ ~Malformed(rule)
    THEN ReSub(rule.pattern, rule.replacement, t)
    ELSE t

RECURSIVE FoldReplace(_, _)
FoldReplace(rs, t) ==
    IF rs = <<>> THEN t ELSE FoldReplace(Tail(rs), Substitute(Head(rs), t))

OnlyCertainReplace(rs) ==
    \A i \in DOMAIN rs : ActionOf(rs[i]) = "Replace" /\ ProbabilityOf(rs[i]) = 100

C2_ReplaceFold ==
    (Returned /\ OnlyCertainReplace(rules)) =>
        /\ result.final_text = FoldReplace(rules, text)
        /\ ~result.blocked

(* two Replace rules fired in turn, the second on the text the first produced *)
C2_Witness ==
    /\ pc = "done"
    /\ OnlyCertainReplace(rules)
    /\ Len(log) = 2
    /\ log[2].before.current_text # text
    /\ result.final_text # log[2].before.current_text
    /\ Substitute(rules[2], text) # Substitute(rules[2], log[2].before.current_text)

----------------------------------------------------------------------------
(* C3: a rule of probability 0.0 whose pattern matches never triggers its
   action, whatever the random draw (the draw 0.0 included). *)
C3_ZeroProbabilityNeverTriggers ==
    \A k \in 1..Len(log) :
        (ProbabilityOf(rules[k]) = 0 /\ Matches(rules[k], log[k].before.current_text)) =>
            /\ log[k].kind \notin {"block", "replace", "llm"}
            /\ LocalsAfter(k) = log[k].before
            /\ ~ReturnedAt(k)

----------------------------------------------------------------------------
(* C4: arbitration fails open on every dependency failure (stream id missing,
   prompt template empty, model group unresolved, history fetch or prompt
   formatting raising, generation call failing): _check_reply_with_llm yields
   should_send = true and the engine does not return blocked = true. *)
C4_ArbitrationFailsOpen ==
    (failure # "none" /\ pc \in {"engine_done", "done"}) =>
        /\ arb # None
        /\ arb.should_send
        /\ result # None
        /\ ~result.blocked

----------------------------------------------------------------------------
(* C5: execute() always ends by returning a well-formed verdict; no exception
   leaves it, whatever the outside capabilities do. *)
WellFormedVerdict(v) ==
    /\ DOMAIN v = {"continue_process", "success", "status", "custom", "message"}
    /\ v.continue_process \in BOOLEAN
    /\ v.success \in BOOLEAN

C5_NoExceptionEscapes == pc = "done" => (verdict # Raised /\ WellFormedVerdict(verdict))

----------------------------------------------------------------------------
(* The for loop as a fold over a rule list rs with draws ds: the locals it
   reaches, and the value it returned if a rule returned. *)
RECURSIVE Sweep(_, _, _)
Sweep(rs, ds, st) ==
    IF rs = <<>> THEN [st |-> st, returned |-> FALSE, value |-> None]
    ELSE LET out == EvalRule(Head(rs), st, Head(ds)) IN
         IF out.returned THEN [st |-> out.st, returned |-> TRUE, value |-> out.value]
         ELSE Sweep(Tail(rs), Tail(ds), out.st)

InitialLocals == [current_text |-> text, modified |-> FALSE,
                  llm_check_needed |-> FALSE, hit_pattern |-> NoStr]

(* where the loop stands: its locals, and the value returned from inside it *)
LoopState ==
    [st |-> EngineLocals,
     returned |-> Len(log) > 0 /\ ReturnedAt(Len(log)),
     value |-> IF Len(log) > 0 /\ ReturnedAt(Len(log)) THEN result ELSE None]

WellFormedEntry(e) == ~Malformed(rules[e.idx])

DrawOf(e) == e.draw

RuleOf(e) == rules[e.idx]

MapSeq(Op(_), ss) == [i \in DOMAIN ss |-> Op(ss[i])]

(* C6: a rule whose pattern is malformed is skipped without effect: the text,
   the modified flag, the arbitration flag and the hit rule are unchanged, the
   loop goes on with the next rule, and the loop stands where it would stand
   had the malformed rules not been in the list. *)
C6_MalformedSkipped ==
    /\ \A k \in 1..Len(log) :
           Malformed(rules[k]) =>
               /\ LocalsAfter(k) = log[k].before
               /\ ~ReturnedAt(k)
               /\ k < Len(log) => log[k + 1].idx = k + 1
               /\ k = Len(log) => idx = k + 1
    /\ LET kept == SelectSeq(log, WellFormedEntry) IN
       LoopState = Sweep(MapSeq(RuleOf, kept), MapSeq(DrawOf, kept), InitialLocals)

(* a malformed rule was evaluated first and the rule after it acted *)
C6_Witness ==
    /\ pc = "done"
    /\ Len(log) = 2
    /\ Malformed(rules[1])
    /\ TriggeredAt(2)
    /\ LocalsAfter(2) # log[2].before

----------------------------------------------------------------------------
(* C7: a rule whose pattern is empty or missing, and a rule whose enabled
   flag is false, is skipped: it never blocks, never changes the text, never
   requests arbitration, and the loop stands where it would stand on the
   configured list without those rules. *)

ActiveRule(rule) == rule.enabled = "on" /\ HasPattern(rule)

PatternEntry(e) == HasPattern(rules[e.idx])

C7_SkippedRules ==
    /\ \A k \in 1..Len(log) :
           ~HasPattern(rules[k]) =>
               /\ LocalsAfter(k) = log[k].before
               /\ ~ReturnedAt(k)
    /\ handler = "llm" =>
           LET active == SelectSeq(config.after_llm_rules, ActiveRule)
               kept == SelectSeq(log, PatternEntry)
           IN  /\ Len(kept) <= Len(active)
               /\ LoopState = Sweep(SubSeq(active, 1, Len(kept)),
                                    MapSeq(DrawOf, kept), InitialLocals)
               /\ (rules # <<>> /\ idx > Len(rules)) => Len(kept) = Len(active)

(* the configuration holds a disabled rule that would have blocked the text,
   and the enabled rule after it acted *)
C7_Witness ==
    /\ pc = "done"
    /\ handler = "llm"
    /\ Len(config.after_llm_rules) = 2
    /\ config.after_llm_rules[1].enabled = "off"
    /\ config.after_llm_rules[1].action = "Block"
    /\ Matches(config.after_llm_rules[1], text)
    /\ Len(log) = 1
    /\ TriggeredAt(1)
    /\ ~result.blocked
    /\ verdict.success

----------------------------------------------------------------------------
(* Vocabulary of the pre-send properties *)

SentModified == pc = "done" /\ handler = "pre" /\ verdict # Raised /\ verdict.message # None

TextCount(segments) == Len(SelectSeq(segments, IsText))

(* identity and kind of the non-text segments, in list order *)
Identity(seg) == [id |-> seg.id, type |-> seg.type]

NonTextIdentities(segments) == MapSeq(Identity, SelectSeq(segments, NotText))

FirstTextIndex(segments) ==
    CHOOSE i \in DOMAIN segments :
        IsText(segments[i]) /\ \A j \in 1..(i - 1) : NotText(segments[j])

(* the list with the first Text segment rewritten and every later one deleted *)
ExpectedRewrite(segments, new_text) ==
    LET f == FirstTextIndex(segments)
        rewritten == [i \in DOMAIN segments |->
                         IF i = f THEN [segments[i] EXCEPT !.data = new_text]
                         ELSE segments[i]]
        Survives(seg) == NotText(seg) \/ seg.id = f
    IN  SelectSeq(rewritten, Survives)

(* C8: when the engine reports modified, not blocked, the trimmed new text is
   not empty and the message has more than one segment, one of them Text, the
   message is sent modified with the first Text segment carrying the new text,
   every later Text segment deleted and every non-text segment kept in
   place. *)
C8_FirstTextRewritten ==
    (/\ pc = "done"
     /\ handler = "pre"
     /\ result # None
     /\ result.modified
     /\ ~result.blocked
     /\ Strip(result.final_text) # <<>>
     /\ Len(origin.message_segments) > 1
     /\ TextCount(origin.message_segments) > 0) =>
        /\ verdict.success
        /\ verdict.message # None
        /\ verdict.message.message_segments =
               ExpectedRewrite(origin.message_segments, result.final_text)
        /\ message = verdict.message

(* Text, non-text, Text: the first was rewritten, the second deleted *)
C8_Witness ==
    /\ SentModified
    /\ Len(origin.message_segments) = 3
    /\ IsText(origin.message_segments[1])
    /\ NotText(origin.message_segments[2])
    /\ IsText(origin.message_segments[3])
    /\ Strip(result.final_text) # <<>>
    /\ Len(message.message_segments) = 2
    /\ message.message_segments[1].data = result.final_text
    /\ message.message_segments[1].data # origin.message_segments[1].data
    /\ message.message_segments[2] = origin.message_segments[2]

(* C9: the pre-send pipeline never corrupts non-text content: every non-text
   segment of the rewritten message has the kind and the content it had in the
   original message, also when the message is a single non-text segment. *)
C9_NonTextContentKept ==
    SentModified =>
        \A i \in DOMAIN message.message_segments :
            NotText(message.message_segments[i]) =>
                \E j \in DOMAIN origin.message_segments :
                    origin.message_segments[j] = message.message_segments[i]

(* C10: after a reconciliation that ends in send-modified, at most one Text
   segment is left, and the non-text segments are those of the original
   message, in the same order, none removed. *)
C10_OneTextNonTextOrder ==
    SentModified =>
        /\ TextCount(message.message_segments) <= 1
        /\ NonTextIdentities(message.message_segments) =
               NonTextIdentities(origin.message_segments)

(* a message of two Text segments around a non-text one was sent modified *)
C10_Witness ==
    /\ SentModified
    /\ TextCount(origin.message_segments) = 2
    /\ NotText(origin.message_segments[2])
    /\ Strip(result.final_text) = <<>>
    /\ Len(message.message_segments) = 1

----------------------------------------------------------------------------
(* the engine reported modified, not blocked, and the new text is empty once
   trimmed *)
EmptiedByEdit ==
    /\ pc = "done"
    /\ handler = "pre"
    /\ result # None
    /\ result.modified
    /\ ~result.blocked
    /\ Strip(result.final_text) = <<>>

OnlyReplies(segments) == \A i \in DOMAIN segments : segments[i].type = "reply"

(* C11: in the pre-send pipeline, when the engine reports modified, not
   blocked, and the trimmed new text is empty, the send is cancelled if the
   message has exactly one segment or if nothing but Reply segments (or
   nothing at all) is left once the Text segments are taken out; otherwise the
   message is sent modified with the original list minus its Text segments, in
   order.  No message leaves such an edit with a Text segment or with Reply
   segments only. *)
C11_EmptyTextReconciled ==
    EmptiedByEdit =>
        LET segments == origin.message_segments
            rest == SelectSeq(segments, NotText)
        IN  /\ IF Len(segments) = 1 \/ rest = <<>> \/ OnlyReplies(rest)
               THEN /\ ~verdict.success
                    /\ verdict.message = None
                    /\ message = origin
               ELSE /\ verdict.success
                    /\ verdict.message # None
                    /\ verdict.message.message_segments = rest
                    /\ message = verdict.message
            /\ verdict.message # None =>
                   /\ TextCount(verdict.message.message_segments) = 0
                   /\ ~OnlyReplies(verdict.message.message_segments)

(* a Text, a Reply and an image segment: the text was emptied and the message
   went out as the Reply and the image *)
C11_Witness ==
    /\ EmptiedByEdit
    /\ Len(origin.message_segments) = 3
    /\ TextCount(origin.message_segments) = 1
    /\ \E i \in DOMAIN origin.message_segments : origin.message_segments[i].type = "reply"
    /\ verdict.success
    /\ Len(verdict.message.message_segments) = 2

----------------------------------------------------------------------------
(* Vocabulary of the arbitration properties *)

(* the generation call returned with success = true *)
GenerationSucceeded == response # NoStr /\ failure = "none"

(* the for loop recomputed from the rules and the draws that were made *)
Swept == Sweep(rules, MapSeq(DrawOf, log), InitialLocals)

ArbitrateTriggeredAt(k) == TriggeredAt(k) /\ ActionOf(rules[k]) = "LLMArbitrate"

(* pattern of the first LLMArbitrate rule that triggered *)
FirstArbitratePattern ==
    LET k == CHOOSE i \in 1..Len(log) :
                 ArbitrateTriggeredAt(i) /\ \A j \in 1..(i - 1) : ~ArbitrateTriggeredAt(j)
    IN  rules[k].pattern

(* C12: when arbitration runs and the generation call succeeds, the decision
   depends on the trimmed response alone: should_send is true exactly when it
   equals the send token; for any other response, the empty one included, the
   engine returns blocked = true with the pattern of the first LLMArbitrate
   rule that triggered as hit rule, and the text and the modified flag the
   sweep left. *)
C12_VerdictFromTrimmedResponse ==
    GenerationSucceeded =>
        /\ arb # None
        /\ arb.should_send <=> (Strip(response) = SendToken)
        /\ Returned =>
               IF Strip(response) = SendToken
               THEN ~result.blocked
               ELSE result = Outcome(TRUE, Swept.st.modified, Swept.st.current_text,
                                     FirstArbitratePattern)

(* the model answered with the empty response after a Replace rule had changed
   the text: the engine blocked *)
C12_Witness ==
    /\ pc = "done"
    /\ GenerationSucceeded
    /\ response = <<>>
    /\ result.blocked
    /\ result.modified
    /\ result.final_text # text
    /\ result.hit_pattern = FirstArbitratePattern

----------------------------------------------------------------------------
(* C13: in the after-LLM pipeline with a rule list and a response content
   that are not empty, the verdict says do not send exactly when the engine
   reports blocked, or reports modified with a final text that is empty once
   trimmed; otherwise it says send, and the response content is overwritten,
   with the trimmed final text, only when the engine reports modified: an
   unmodified response goes back with its content unchanged. *)
C13_AfterLLMVerdict ==
    (/\ pc = "done"
     /\ handler = "llm"
     /\ rules # <<>>
     /\ origin # None
     /\ origin.llm_response_content # <<>>
     /\ result # None) =>
        LET cancel == result.blocked
                      \/ (result.modified /\ Strip(result.final_text) = <<>>)
        IN  /\ verdict.success <=> ~cancel
            /\ cancel => verdict.message = None /\ message = origin
            /\ (~cancel /\ result.modified) =>
                   /\ message = [origin EXCEPT
                                    !.llm_response_content = Strip(result.final_text)]
                   /\ verdict.message = message
            /\ (~cancel /\ ~result.modified) =>
                   /\ message = origin
                   /\ verdict.message = origin

(* the replacements left only whitespace: the response was not sent, its
   content was not touched *)
C13_Witness ==
    /\ pc = "done"
    /\ handler = "llm"
    /\ result # None
    /\ ~result.blocked
    /\ result.modified
    /\ result.final_text # <<>>
    /\ Strip(result.final_text) = <<>>
    /\ ~verdict.success
    /\ message = origin

----------------------------------------------------------------------------
(* C14: in one run of the engine the arbitrator is called at most once,
   however many LLMArbitrate rules trigger; it is called only after every rule
   of the list was evaluated and only if no Block rule triggered; the text it
   is given is the current text after all Replace rules; an LLMArbitrate rule
   never changes the current text; and the hit rule recorded for arbitration
   is the pattern of the first LLMArbitrate rule that triggered, which a later
   LLMArbitrate rule does not overwrite. *)
C14_ArbitrationOnceAfterSweep ==
    /\ arb_calls <= 1
    /\ arb_calls = 1 =>
           /\ Len(log) = Len(rules)
           /\ \A k \in 1..Len(log) : log[k].idx = k
           /\ \A k \in 1..Len(log) : ~(TriggeredAt(k) /\ ActionOf(rules[k]) = "Block")
           /\ \E k \in 1..Len(log) : ArbitrateTriggeredAt(k)
           /\ args.reply_text = Swept.st.current_text
           /\ args.reply_text = current_text
    /\ \A k \in 1..Len(log) :
           ArbitrateTriggeredAt(k) =>
               /\ LocalsAfter(k).current_text = log[k].before.current_text
               /\ LocalsAfter(k).modified = log[k].before.modified
               /\ LocalsAfter(k).llm_check_needed
               /\ hit_pattern = FirstArbitratePattern
               /\ Returned /\ ~ReturnedAt(Len(log)) =>
                      result.hit_pattern = FirstArbitratePattern

(* two LLMArbitrate rules with different patterns triggered: one call, and the
   first rule's pattern is the hit rule *)
C14_Witness ==
    /\ pc = "done"
    /\ Len(log) = 2
    /\ ArbitrateTriggeredAt(1)
    /\ ArbitrateTriggeredAt(2)
    /\ rules[1].pattern # rules[2].pattern
    /\ arb_calls = 1
    /\ result # None
    /\ result.hit_pattern = rules[1].pattern

----------------------------------------------------------------------------
(* an LLMArbitrate rule triggered and the for loop ran to its end *)
ArbitrationRequested ==
    /\ idx > Len(rules)
    /\ \E k \in 1..Len(log) : ArbitrateTriggeredAt(k)

(* C15: when the sweep requested arbitration but the arbitration settings are
   absent, or the final current text is empty once trimmed, the arbitrator is
   not called and the engine returns blocked = false with the modified flag
   and the text the sweep left, whether or not a Replace rule fired.  The
   pre-send pipeline, which passes no arbitration settings, never calls the
   arbitrator. *)
C15_ArbitrationSkipped ==
    /\ (ArbitrationRequested /\ (settings = None \/ Strip(current_text) = <<>>)) =>
           /\ arb_calls = 0
           /\ args = None
           /\ pc # "sweep" =>
                  /\ Returned
                  /\ result = Outcome(FALSE, Swept.st.modified, Swept.st.current_text,
                                      FirstArbitratePattern)
    /\ handler = "pre" => (settings = None /\ arb_calls = 0 /\ args = None /\ arb = None)

(* the pre-send pipeline: a Replace rule changed the text, an LLMArbitrate
   rule triggered on it, and the message went on without arbitration *)
C15_Witness ==
    /\ pc = "done"
    /\ handler = "pre"
    /\ ArbitrationRequested
    /\ result # None
    /\ result.modified
    /\ ~result.blocked
    /\ result.hit_pattern # NoStr
    /\ arb_calls = 0

----------------------------------------------------------------------------
(* the k-th iteration applied the action of its rule *)
ActionApplied(k) ==
    LET rule == rules[k]
        before == log[k].before
    IN  IF ActionOf(rule) = "Block"
        THEN /\ ReturnedAt(k)
             /\ result = Outcome(TRUE, before.modified, before.current_text, rule.pattern)
        ELSE IF ActionOf(rule) = "Replace"
        THEN /\ ~ReturnedAt(k)
             /\ LocalsAfter(k).current_text =
                    ReSub(rule.pattern, rule.replacement, before.current_text)
             /\ LocalsAfter(k).modified =
                    (before.modified \/ LocalsAfter(k).current_text # before.current_text)
        ELSE IF ActionOf(rule) = "LLMArbitrate"
        THEN /\ ~ReturnedAt(k)
             /\ LocalsAfter(k).llm_check_needed
             /\ LocalsAfter(k).hit_pattern # NoStr
        ELSE TRUE

(* C16: the probability gate as a frame condition: when a rule matches but its
   random draw exceeds its probability (a probability below 1.0), the rule
   leaves the current text, the modified flag, the arbitration flag and the
   hit rule unchanged and the evaluation goes on with the next rule; when the
   probability is 1.0 no draw is made and a matching rule always applies its
   action. *)
C16_ProbabilityGateFrame ==
    \A k \in 1..Len(log) :
        Matches(rules[k], log[k].before.current_text) =>
            /\ ProbabilityOf(rules[k]) < 100 => log[k].draw \in Draws
            /\ (ProbabilityOf(rules[k]) < 100 /\ log[k].draw > ProbabilityOf(rules[k])) =>
                   /\ LocalsAfter(k) = log[k].before
                   /\ ~ReturnedAt(k)
                   /\ k < Len(log) => log[k + 1].idx = k + 1
                   /\ k = Len(log) => idx = k + 1
            /\ ProbabilityOf(rules[k]) >= 100 =>
                   /\ log[k].draw = NoDraw
                   /\ ActionApplied(k)

(* a Replace rule of probability 0.5 matched, drew 0.99 and changed nothing;
   the rule after it acted *)
C16_Witness ==
    /\ pc = "done"
    /\ Len(log) = 2
    /\ ActionOf(rules[1]) = "Replace"
    /\ Matches(rules[1], text)
    /\ ProbabilityOf(rules[1]) = 50
    /\ log[1].draw = 99
    /\ ReSub(rules[1].pattern, rules[1].replacement, text) # text
    /\ log[2].before.current_text = text
    /\ TriggeredAt(2)
    /\ ProbabilityOf(rules[2]) = 100
    /\ LocalsAfter(2) # log[2].before

----------------------------------------------------------------------------
(* the engine returned blocked = true to the handler *)
EngineBlocked == result # None /\ result.blocked

(* the pre-send handler returned without reaching the reconciliation *)
PreSendUntouchedCase ==
    \/ rules = <<>>
    \/ origin = None
    \/ origin.plain_text = <<>>
    \/ EngineBlocked
    \/ (result # None /\ ~result.modified)

(* C17: the pre-send pipeline touches the segments of the message only when
   the engine reports modified and not blocked: when the rule list is empty,
   the message text is empty, the engine reports blocked, or it reports not
   modified, the segment list and the content of every segment are unchanged
   and no rewritten message is returned; the verdict says do not send in the
   blocked case and send in the other three. *)
C17_PreSendFrame ==
    handler = "pre" =>
        /\ pc # "done" => message = origin
        /\ (pc = "done" /\ PreSendUntouchedCase) =>
               /\ message = origin
               /\ verdict.message = None
               /\ verdict.success <=> ~EngineBlocked

(* a message of a Text and an image segment was blocked after a Replace rule
   had changed the text: its segments are as they came *)
C17_Witness ==
    /\ pc = "done"
    /\ handler = "pre"
    /\ EngineBlocked
    /\ result.modified
    /\ Len(origin.message_segments) = 2
    /\ TextCount(origin.message_segments) = 1
    /\ message = origin
    /\ ~verdict.success

----------------------------------------------------------------------------
(* Vocabulary of the reload property *)

InvocationState ==
    <<handler, pc, message, rules, settings, text, idx, current_text, modified,
      llm_check_needed, hit_pattern, args, response, arb, result, verdict>>

SharedState == <<pre_rules, llm_rules, llm_check_settings>>

(* the arguments of the arbitrator as the settings st give them *)
ArbitrationArgs(st) ==
    [chat_id |-> origin.stream_id, reply_text |-> current_text, prompt |-> st.prompt,
     model_name |-> st.model, context_count |-> st.context_count]

(* the invocation stands where the configuration it started under puts it *)
UnderStartConfiguration ==
    handler = "llm" =>
        /\ rules = snapshot.rules
        /\ Len(log) <= Len(snapshot.rules)
        /\ LoopState = Sweep(SubSeq(snapshot.rules, 1, Len(log)), MapSeq(DrawOf, log),
                             InitialLocals)
        /\ args # None => args = ArbitrationArgs(snapshot.settings)
        /\ failure = "prompt" => snapshot.settings.prompt = <<>>
        /\ (arb # None /\ args.chat_id # <<>> /\ snapshot.settings.prompt = <<>>) =>
               failure = "prompt"
        /\ (Returned /\ result.hit_pattern # NoStr) =>
               \E i \in DOMAIN snapshot.rules :
                   snapshot.rules[i].pattern = result.hit_pattern
        /\ (Returned /\ ~LoopState.returned) =>
               result = Outcome(arb # None /\ ~arb.should_send, modified, current_text,
                                hit_pattern)

(* a step of the invocation writes no shared state, and a load writes no state
   of the invocation *)
SharedStateIsolated ==
    /\ InvocationState' # InvocationState => SharedState' = SharedState
    /\ SharedState' # SharedState => InvocationState' = InvocationState

(* C18: a configuration reload (get_plugin_components overwriting the class
   level rules and arbitration settings) that interleaves with an invocation
   in flight, in particular while it is suspended in the external call of the
   arbitrator, does not change the outcome of that invocation: the rules it
   evaluates, its hit rule and the arbitration parameters it uses are those of
   the one configuration in force when it started, never a mix; and an
   invocation never writes the shared rule list or settings. *)
C18_ReloadIsolated == []UnderStartConfiguration /\ [][SharedStateIsolated]_vars

(* the rules and the settings were reloaded while the invocation waited for
   the generation call, and the invocation blocked on the rule it started
   with *)
C18_Witness ==
    /\ pc = "done"
    /\ handler = "llm"
    /\ arb_calls = 1
    /\ response # NoStr
    /\ llm_rules # snapshot.rules
    /\ llm_check_settings.prompt # snapshot.settings.prompt
    /\ llm_check_settings.model # snapshot.settings.model
    /\ result # None
    /\ result.blocked
    /\ \A i \in DOMAIN llm_rules : llm_rules[i].pattern # result.hit_pattern

----------------------------------------------------------------------------
BlockTriggeredAt(k) == TriggeredAt(k) /\ ActionOf(rules[k]) = "Block"

(* C19: in every outcome of _apply_filter_rules_to_text, blocked = true
   implies that the hit rule is present and is the non-empty pattern of a rule
   of the list that matched and triggered: the Block rule that triggered, or
   else the first LLMArbitrate rule that triggered; and when blocked = false
   the hit rule is present only if an LLMArbitrate rule triggered during the
   sweep. *)
C19_HitRuleOfOutcome ==
    Returned =>
        /\ result.blocked =>
               /\ result.hit_pattern # NoStr
               /\ result.hit_pattern # <<>>
               /\ \E k \in 1..Len(log) :
                      /\ TriggeredAt(k)
                      /\ rules[k].pattern = result.hit_pattern
                      /\ \/ BlockTriggeredAt(k)
                         \/ /\ ArbitrateTriggeredAt(k)
                            /\ \A j \in 1..Len(log) : ~BlockTriggeredAt(j)
                            /\ result.hit_pattern = FirstArbitratePattern
        /\ (~result.blocked /\ result.hit_pattern # NoStr) =>
               /\ \E k \in 1..Len(log) : ArbitrateTriggeredAt(k)
               /\ result.hit_pattern = FirstArbitratePattern

(* the arbitrator said no: the outcome is blocked on the LLMArbitrate rule,
   no Block rule being in the list *)
C19_Witness ==
    /\ pc = "done"
    /\ result # None
    /\ result.blocked
    /\ arb # None
    /\ ~arb.should_send
    /\ \A k \in DOMAIN rules : ActionOf(rules[k]) # "Block"
    /\ result.hit_pattern = FirstArbitratePattern

----------------------------------------------------------------------------
(* the k-th iteration was a Replace rule that triggered and produced a text
   different from the one it was applied to *)
ReplaceChangedAt(k) ==
    /\ TriggeredAt(k)
    /\ ActionOf(rules[k]) = "Replace"
    /\ ReSub(rules[k].pattern, rules[k].replacement, log[k].before.current_text)
           # log[k].before.current_text

(* C20: in every outcome of _apply_filter_rules_to_text, blocked or not,
   modified = false implies that the final text is the input text, and
   modified = true holds exactly when at least one Replace rule triggered and
   produced a text different from the text it was applied to (so modified can
   be true with a final text equal to the input, when a later replacement
   undoes an earlier one). *)
C20_ModifiedOfOutcome ==
    Returned =>
        /\ ~result.modified => result.final_text = text
        /\ result.modified <=> (\E k \in 1..Len(log) : ReplaceChangedAt(k))

(* two Replace rules changed the text, the second back to the input *)
C20_Witness ==
    /\ pc = "done"
    /\ result # None
    /\ result.modified
    /\ result.final_text = text
    /\ Len(log) = 2
    /\ ReplaceChangedAt(1)
    /\ ReplaceChangedAt(2)

====
